---- MODULE Spec2Model ----
(***************************************************************************)
(* Model of src/model/preprocessing.py: the DataLoader class that builds   *)
(* the tag vocabulary (load_data, set_tags) and aligns word-level tags to  *)
(* subword tokens (convert_examples_to_features).                          *)
(*                                                                         *)
(* Python values are modelled as follows: a list is a sequence, a dict is  *)
(* a function whose DOMAIN is its key set, a raised exception is a record  *)
(* [kind |-> "KeyError", ...] or [kind |-> "AssertionError", ...] stored   *)
(* in ret, the outcome of the last call.                                   *)
(***************************************************************************)
EXTENDS Integers, Sequences, FiniteSets, TLC

(***************************************************************************)
(* Bounds of the model.                                                    *)
(***************************************************************************)
\* total number of words in one split / one word_seq argument
MaxWords == 2
\* number of examples in one split / one word_seq argument
MaxExamples == 2
\* largest max_seq_length passed to convert_examples_to_features
MaxSeqLen == 4

\* train_dict, tag2id, id2tag: the fields of the DataLoader instance;
\* args, ret: the arguments and the outcome of the call in progress;
\* lastOp: the last method that wrote the instance; built: see Fresh
VARIABLES train_dict, tag2id, id2tag, args, ret, lastOp, built

vars == <<train_dict, tag2id, id2tag, args, ret, lastOp, built>>

(***************************************************************************)
(* Generic helpers.                                                        *)
(***************************************************************************)
Min(a, b) == IF a < b THEN a ELSE b

Max(a, b) == IF a > b THEN a ELSE b

\* a Python dict with no key ({} of lines 40-45)
EmptyDict == [k \in {} |-> 0]

\* all sequences over S of length exactly n
SeqsOfLen(S, n) == [1..n -> S]

RECURSIVE Repeat(_, _)
\* [value] * n
Repeat(value, n) ==
    IF n <= 0 THEN <<>> ELSE <<value>> \o Repeat(value, n - 1)

RECURSIVE Flatten(_)
\* itertools.chain(*seqs): the concatenation of a list of lists
Flatten(seqs) ==
    IF seqs = <<>> THEN <<>> ELSE Head(seqs) \o Flatten(Tail(seqs))

RECURSIVE ShapesOf(_, _)
\* the lists of example lengths: k examples holding at most n words in total
ShapesOf(k, n) ==
    IF k = 0 THEN {<<>>}
    ELSE UNION {{<<l>> \o s : s \in ShapesOf(k - 1, n - l)} : l \in 0..n}

Shapes == UNION {ShapesOf(k, MaxWords) : k \in 0..MaxExamples}

RECURSIVE SumSeq(_)
SumSeq(s) == IF s = <<>> THEN 0 ELSE Head(s) + SumSeq(Tail(s))

RECURSIVE Reshape(_, _)
\* cut the flat list into consecutive examples of the given lengths
Reshape(flat, shape) ==
    IF shape = <<>> THEN <<>>
    ELSE <<SubSeq(flat, 1, Head(shape))>>
         \o Reshape(SubSeq(flat, Head(shape) + 1, Len(flat)), Tail(shape))

(***************************************************************************)
(* The tag vocabulary: load_data and set_tags.                             *)
(***************************************************************************)
\* the four entries seeded by set_tags
ReservedTags == {"_t_pad_", "[INV]", "[CLS]", "[SEP]"}

ReservedId(tag) ==
    CASE tag = "_t_pad_" -> 0
      [] tag = "[INV]" -> 1
      [] tag = "[CLS]" -> 2
      [] tag = "[SEP]" -> 3

\* tags that may occur in the tag_seq of train.pkl
TrainTags == {"O", "B", "[CLS]"}

\* the shapes of the training split: one sentence of several tags, or
\* several sentences of one tag each
TrainShapes == {s \in Shapes : Len(s) <= 1 \/ \A i \in 1..Len(s) : s[i] = 1}

\* the possible contents of train.pkl, as far as set_tags reads them
TrainFiles ==
    UNION {{[tag_seq |-> Reshape(flat, shape)] :
               flat \in SeqsOfLen(TrainTags, SumSeq(shape))} :
           shape \in TrainShapes}

\* the training split get_train_data / get_test_data convert against
ConvTrain == [tag_seq |-> <<<<"O">>>>]

\* set(chain(*self.train_dict['tag_seq']))
TagSet(d) == {Flatten(d.tag_seq)[i] : i \in 1..Len(Flatten(d.tag_seq))}

\* the orders in which a Python set may be iterated
Orders(S) == {o \in SeqsOfLen(S, Cardinality(S)) :
                 \A i, j \in 1..Cardinality(S) : i # j => o[i] # o[j]}

\* self.tag2id['_t_pad_'] = 0 ... self.tag2id['[SEP]'] = 3
SeedReserved(d) ==
    [t \in DOMAIN d \cup ReservedTags |->
        IF t \in ReservedTags THEN ReservedId(t) ELSE d[t]]

\* faulty variant of AddTag: the 'not in' test is missing
AddTagOverwrite(d, tag) ==
    [t \in DOMAIN d \cup {tag} |->
        IF t = tag THEN Cardinality(DOMAIN d) ELSE d[t]]

\* if tag not in self.tag2id: self.tag2id[tag] = len(self.tag2id)
AddTag(d, tag) ==
    IF tag \in DOMAIN d THEN d
    ELSE [t \in DOMAIN d \cup {tag} |->
             IF t = tag THEN Cardinality(DOMAIN d) ELSE d[t]]

RECURSIVE AddTags(_, _)
\* for tag in tags: ...
AddTags(d, order) ==
    IF order = <<>> THEN d
    ELSE AddTags(AddTag(d, Head(order)), Tail(order))

\* {i: tag for tag, i in self.tag2id.items()}
InvertDict(d) ==
    [i \in {d[t] : t \in DOMAIN d} |-> CHOOSE t \in DOMAIN d : d[t] = i]

NoCall == [kind |-> "None"]

\* History of the vocabulary, kept to state the properties of repeated
\* calls: "stale" when the training split is not the one the vocabulary was
\* last built from (or none was built), "once" when it is, "again" when the
\* last set_tags ran on the very split of the set_tags before it.
Fresh(b) == b \in {"once", "again"}

\* the effect of load_data on the instance (val_dict and test_dict are
\* not read by set_tags and are passed to the conversion as arguments)
Loaded(file) ==
    /\ train_dict' = file
    /\ built' = IF Fresh(built) /\ file = train_dict THEN built ELSE "stale"

\* the effect of a set_tags that starts from training split d
TagsSet(d, order) ==
    /\ tag2id' = AddTags(SeedReserved(tag2id), order)
    /\ id2tag' = InvertDict(tag2id')
    /\ built' = IF Fresh(built) /\ d = train_dict THEN "again" ELSE "once"
    /\ ret' = NoCall

\* line 59 raises KeyError('tag_seq') before anything is written
TagsKeyError ==
    /\ ret' = [kind |-> "KeyError", key |-> "tag_seq"]
    /\ UNCHANGED <<tag2id, id2tag, built>>

load_data ==
    \E file \in TrainFiles :
        /\ Loaded(file)
        /\ ret' = NoCall
        /\ lastOp' = "load_data"
        /\ UNCHANGED <<tag2id, id2tag, args>>

set_tags ==
    /\ lastOp' = "set_tags"
    /\ UNCHANGED <<train_dict, args>>
    /\ IF "tag_seq" \in DOMAIN train_dict
       THEN \E order \in Orders(TagSet(train_dict)) :
                TagsSet(train_dict, order)
       ELSE TagsKeyError

\* lines 187-188: load_data then set_tags; the conversions that follow read
\* the instance and write nothing to it
get_train_data ==
    \E file \in TrainFiles :
        /\ train_dict' = file
        /\ \E order \in Orders(TagSet(file)) : TagsSet(file, order)
        /\ lastOp' = "get_train_data"
        /\ UNCHANGED args

\* lines 212-213: load_data then set_tags
get_test_data ==
    \E file \in TrainFiles :
        /\ train_dict' = file
        /\ \E order \in Orders(TagSet(file)) : TagsSet(file, order)
        /\ lastOp' = "get_test_data"
        /\ UNCHANGED args

\* DataLoader.__init__
Init ==
    /\ train_dict = EmptyDict
    /\ tag2id = EmptyDict
    /\ id2tag = EmptyDict
    /\ args = NoCall
    /\ ret = NoCall
    /\ lastOp = "__init__"
    /\ built = "stale"

Next == load_data \/ set_tags \/ get_train_data \/ get_test_data

Spec == Init /\ [][Next]_vars

(***************************************************************************)
(* The external tokenizer (bert.tokenization.FullTokenizer): a fixed       *)
(* vocabulary over the words of the model.                                 *)
(***************************************************************************)
\* the words of an example: the two sentinels, a word the tokenizer maps to
\* no subword (it strips control characters), a one-piece word and a
\* two-piece word
Words == {"_unk_", "_w_pad_", "", "a", "ab"}

\* the tags of a tag_seq argument; "B" is not in the vocabulary built from
\* ConvTrain
Tags == {"O", "B"}

\* tokenizer.tokenize(word)
tokenize(word) ==
    CASE word = "" -> <<>>
      [] word = "a" -> <<"a">>
      [] word = "ab" -> <<"a", "##b">>
      [] OTHER -> <<"[UNK]">>

\* the line of vocab.txt that holds the token
VocabId(token) ==
    CASE token = "[UNK]" -> 100
      [] token = "[CLS]" -> 101
      [] token = "[SEP]" -> 102
      [] token = "a" -> 170
      [] token = "##b" -> 1830
      [] OTHER -> 100

RECURSIVE convert_tokens_to_ids(_)
\* tokenizer.convert_tokens_to_ids(ntokens)
convert_tokens_to_ids(ntokens) ==
    IF ntokens = <<>> THEN <<>>
    ELSE <<VocabId(Head(ntokens))>> \o convert_tokens_to_ids(Tail(ntokens))

(***************************************************************************)
(* convert_examples_to_features.                                           *)
(***************************************************************************)
\* the tokens, labels and label_mask lists of lines 107-109
NoPieces == [tokens |-> <<>>, labels |-> <<>>, label_mask |-> <<>>]

Extend(x, y) ==
    [tokens |-> x.tokens \o y.tokens,
     labels |-> x.labels \o y.labels,
     label_mask |-> x.label_mask \o y.label_mask]

RECURSIVE PadTagsOutside(_)
\* faulty variant of PadTags: the placeholder is a training tag
PadTagsOutside(word_seq) ==
    IF word_seq = <<>> THEN <<>>
    ELSE <<Repeat("O", Len(Head(word_seq)))>> \o PadTagsOutside(Tail(word_seq))

RECURSIVE PadTags(_)
\* tag_seq = [['_t_pad_' for _ in ex] for ex in word_seq]
PadTags(word_seq) ==
    IF word_seq = <<>> THEN <<>>
    ELSE <<Repeat("_t_pad_", Len(Head(word_seq)))>> \o PadTags(Tail(word_seq))

\* faulty variant of UnkPieces: the '[UNK]' token is marked invalid
UnkPiecesMasked(label_1) ==
    [tokens |-> <<"[UNK]">>, labels |-> <<label_1>>, label_mask |-> <<FALSE>>]

\* word == '_unk_': one '[UNK]' token that keeps the word's label
UnkPieces(label_1) ==
    [tokens |-> <<"[UNK]">>, labels |-> <<label_1>>, label_mask |-> <<TRUE>>]

\* faulty variant of SubwordPieces: every subword keeps the word's label
SubwordPiecesAllLabelled(token, label_1) ==
    [tokens |-> token,
     labels |-> Repeat(label_1, Len(token)),
     label_mask |-> Repeat(TRUE, Len(token))]

\* for m in range(len(token)): the first subword keeps the label, the
\* others get '[INV]'
SubwordPieces(token, label_1) ==
    IF token = <<>> THEN NoPieces
    ELSE [tokens |-> token,
          labels |-> <<label_1>> \o Repeat("[INV]", Len(token) - 1),
          label_mask |-> <<TRUE>> \o Repeat(FALSE, Len(token) - 1)]

\* the body of the loop over the words of one example
WordPieces(word, label_1) ==
    IF word = "_unk_" THEN UnkPieces(label_1)
    ELSE IF word = "_w_pad_" THEN NoPieces
    ELSE SubwordPieces(tokenize(word), label_1)

RECURSIVE WalkWords(_, _)
\* for i, word in enumerate(textlist)
WalkWords(textlist, labellist) ==
    IF textlist = <<>> THEN NoPieces
    ELSE Extend(WordPieces(Head(textlist), Head(labellist)),
                WalkWords(Tail(textlist), Tail(labellist)))

\* the Python slice s[0:stop]: a negative stop counts from the end
PySlice(s, stop) ==
    SubSeq(s, 1, IF stop < 0 THEN Max(Len(s) + stop, 0) ELSE Min(stop, Len(s)))

\* faulty variant of Truncate: the test is off by one
TruncateLate(x, use_max_seq, max_seq_length) ==
    IF use_max_seq /\ Len(x.tokens) >= max_seq_length
    THEN [tokens |-> PySlice(x.tokens, max_seq_length - 2),
          labels |-> PySlice(x.labels, max_seq_length - 2),
          label_mask |-> PySlice(x.label_mask, max_seq_length - 2)]
    ELSE x

\* faulty variant of Truncate: room is left for one marker only
TruncateOneMore(x, use_max_seq, max_seq_length) ==
    IF use_max_seq /\ Len(x.tokens) >= max_seq_length - 1
    THEN [tokens |-> PySlice(x.tokens, max_seq_length - 1),
          labels |-> PySlice(x.labels, max_seq_length - 1),
          label_mask |-> PySlice(x.label_mask, max_seq_length - 1)]
    ELSE x

\* if use_max_seq and len(tokens) >= max_seq_length - 1: cut the three lists
Truncate(x, use_max_seq, max_seq_length) ==
    IF use_max_seq /\ Len(x.tokens) >= max_seq_length - 1
    THEN [tokens |-> PySlice(x.tokens, max_seq_length - 2),
          labels |-> PySlice(x.labels, max_seq_length - 2),
          label_mask |-> PySlice(x.label_mask, max_seq_length - 2)]
    ELSE x

\* faulty variant of Lookup: self.tag2id.get(key, 0)
LookupWithDefault(d, key) ==
    IF key \in DOMAIN d THEN [ok |-> TRUE, id |-> d[key]]
    ELSE [ok |-> TRUE, id |-> 0]

\* self.tag2id[key], with the KeyError of a missing key
Lookup(d, key) ==
    IF key \in DOMAIN d THEN [ok |-> TRUE, id |-> d[key]]
    ELSE [ok |-> FALSE, key |-> key]

\* faulty variant of LookupKeys: the end marker is labelled '[CLS]'
LookupKeysEndAsStart(x) ==
    <<"[CLS]">> \o SubSeq(x.labels, 1, Len(x.tokens)) \o <<"[CLS]">>

\* the keys looked up in self.tag2id, in the order of lines 138-146
LookupKeys(x) == <<"[CLS]">> \o SubSeq(x.labels, 1, Len(x.tokens)) \o <<"[SEP]">>

RECURSIVE LookupAll(_, _)
\* the ids of the keys, or the KeyError of the first key that is missing
LookupAll(d, keys) ==
    IF keys = <<>> THEN [kind |-> "ok", ids |-> <<>>]
    ELSE LET first == Lookup(d, Head(keys))
         IN  IF ~first.ok THEN [kind |-> "KeyError", key |-> first.key]
             ELSE LET rest == LookupAll(d, Tail(keys))
                  IN  IF rest.kind # "ok" THEN rest
                      ELSE [kind |-> "ok", ids |-> <<first.id>> \o rest.ids]

\* ntokens, segment_ids, label_ids, label_mask, input_ids and input_mask
\* as lines 132-148 leave them
Assemble(x, d) ==
    LET found == LookupAll(d, LookupKeys(x))
        ntokens == <<"[CLS]">> \o x.tokens \o <<"[SEP]">>
    IN  IF found.kind # "ok" THEN found
        ELSE [kind |-> "ok",
              ntokens |-> ntokens,
              input_ids |-> convert_tokens_to_ids(ntokens),
              input_mask |-> Repeat(1, Len(ntokens)),
              segment_ids |-> Repeat(0, Len(ntokens)),
              label_ids |-> found.ids,
              label_mask |-> <<FALSE>> \o x.label_mask \o <<FALSE>>]

\* lines 149-161: the padding loop, which appends to the five lists until
\* input_ids is long enough, and the five assertions
PadAndAssert(f, use_max_seq, max_seq_length) ==
    IF ~use_max_seq THEN f
    ELSE LET n == Max(max_seq_length - Len(f.input_ids), 0)
             padded == [f EXCEPT
                 !.input_ids = @ \o Repeat(0, n),
                 !.input_mask = @ \o Repeat(0, n),
                 !.segment_ids = @ \o Repeat(0, n),
                 !.label_ids = @ \o Repeat(0, n),
                 !.label_mask = @ \o Repeat(FALSE, n)]
         IN  IF /\ Len(padded.input_ids) = max_seq_length
                /\ Len(padded.input_mask) = max_seq_length
                /\ Len(padded.segment_ids) = max_seq_length
                /\ Len(padded.label_ids) = max_seq_length
                /\ Len(padded.label_mask) = max_seq_length
             THEN padded
             ELSE [kind |-> "AssertionError"]

\* one iteration of the loop over the examples (lines 105-161)
ConvertExample(textlist, labellist, d, use_max_seq, max_seq_length) ==
    LET x == Truncate(WalkWords(textlist, labellist), use_max_seq, max_seq_length)
        f == Assemble(x, d)
    IN  IF f.kind # "ok" THEN f
        ELSE PadAndAssert(f, use_max_seq, max_seq_length)

RECURSIVE ConvertAll(_, _, _, _, _)
\* for (ex_index, example) in enumerate(word_seq): the records of the
\* examples, or the first exception raised
ConvertAll(word_seq, tag_seq, d, use_max_seq, max_seq_length) ==
    IF word_seq = <<>> THEN [kind |-> "ok", examples |-> <<>>]
    ELSE LET f == ConvertExample(Head(word_seq), Head(tag_seq), d,
                                 use_max_seq, max_seq_length)
         IN  IF f.kind # "ok" THEN f
             ELSE LET rest == ConvertAll(Tail(word_seq), Tail(tag_seq), d,
                                         use_max_seq, max_seq_length)
                  IN  IF rest.kind # "ok" THEN rest
                      ELSE [kind |-> "ok", examples |-> <<f>> \o rest.examples]

\* keras to_categorical: the one-hot row of a label id
to_categorical(id, num_classes) ==
    Repeat(0, id) \o <<1>> \o Repeat(0, num_classes - id - 1)

RECURSIVE OneHotRows(_, _)
\* to_categorical applied to the label ids of one example
OneHotRows(label_ids, num_classes) ==
    IF label_ids = <<>> THEN <<>>
    ELSE <<to_categorical(Head(label_ids), num_classes)>>
         \o OneHotRows(Tail(label_ids), num_classes)

RECURSIVE Column(_, _)
\* the list that the loop appends one list of each example to
Column(examples, name) ==
    IF examples = <<>> THEN <<>>
    ELSE <<Head(examples)[name]>> \o Column(Tail(examples), name)

RECURSIVE OneHotColumn(_, _)
\* to_categorical(np.array(target['label_ids']), num_classes=len(self.tag2id))
OneHotColumn(rows, num_classes) ==
    IF rows = <<>> THEN <<>>
    ELSE <<OneHotRows(Head(rows), num_classes)>>
         \o OneHotColumn(Tail(rows), num_classes)

\* lines 171-184: the stacked records that are returned; examples keeps the
\* per-example lists (the ones the print_ex diagnostics show), and ndarray
\* tells whether lines 177-182 turned the lists into numpy arrays
Returned(r, d, use_max_seq) ==
    IF r.kind # "ok" THEN r
    ELSE [kind |-> "ok",
          examples |-> r.examples,
          ndarray |-> use_max_seq,
          inp |-> [input_word_ids |-> Column(r.examples, "input_ids"),
                   input_mask |-> Column(r.examples, "input_mask"),
                   input_type_ids |-> Column(r.examples, "segment_ids")],
          target |-> [label_ids |->
                          IF use_max_seq
                          THEN OneHotColumn(Column(r.examples, "label_ids"),
                                            Cardinality(DOMAIN d))
                          ELSE Column(r.examples, "label_ids"),
                      label_mask |-> Column(r.examples, "label_mask")]]

\* the arguments of one call: tag_seq is None when has_tags is FALSE
CallArgs(word_seq, has_tags, tag_seq, max_seq_length, use_max_seq) ==
    [kind |-> "call", word_seq |-> word_seq, has_tags |-> has_tags,
     tag_seq |-> tag_seq, max_seq_length |-> max_seq_length,
     use_max_seq |-> use_max_seq]

\* the tag_seq the loop reads (lines 92-93)
EffectiveTags(a) == IF a.has_tags THEN a.tag_seq ELSE PadTags(a.word_seq)

\* one call, from the arguments to the return value or the exception
Call(a) ==
    /\ args' = a
    /\ ret' = Returned(ConvertAll(a.word_seq, EffectiveTags(a), tag2id,
                                  a.use_max_seq, a.max_seq_length),
                       tag2id, a.use_max_seq)
    /\ UNCHANGED <<train_dict, tag2id, id2tag, lastOp, built>>

\* calls are sequential: a call starts when the previous one has returned
convert_examples_to_features ==
    /\ args = NoCall
    /\ \E shape \in Shapes, m \in 1..MaxSeqLen, u \in BOOLEAN :
        \E ws \in SeqsOfLen(Words, SumSeq(shape)) :
            \/ Call(CallArgs(Reshape(ws, shape), FALSE, <<>>, m, u))
            \/ \E ts \in SeqsOfLen(Tags, SumSeq(shape)) :
                   Call(CallArgs(Reshape(ws, shape), TRUE, Reshape(ts, shape), m, u))

\* the caller takes the returned records, or the exception, of the call
Return ==
    /\ args # NoCall
    /\ args' = NoCall
    /\ ret' = NoCall
    /\ UNCHANGED <<train_dict, tag2id, id2tag, lastOp, built>>

\* the instance as get_train_data and get_test_data leave it at lines 188
\* and 213, before they call the conversion
InitConvert ==
    /\ train_dict = ConvTrain
    /\ tag2id \in {AddTags(SeedReserved(EmptyDict), order) :
                      order \in Orders(TagSet(ConvTrain))}
    /\ id2tag = InvertDict(tag2id)
    /\ args = NoCall
    /\ ret = NoCall
    /\ lastOp = "set_tags"
    /\ built = "once"

NextConvert == convert_examples_to_features \/ Return

SpecConvert == InitConvert /\ [][NextConvert]_vars

(***************************************************************************)
(* Properties of the tag vocabulary (checked under Spec).                  *)
(***************************************************************************)
SetTagsOps == {"set_tags", "get_train_data", "get_test_data"}

\* the ids in use
IdsOf(d) == {d[t] : t \in DOMAIN d}

\* tag2id is one-to-one onto 0..N-1 and id2tag is its inverse
IsBijection ==
    /\ \A t, u \in DOMAIN tag2id : tag2id[t] = tag2id[u] => t = u
    /\ IdsOf(tag2id) = 0..(Cardinality(DOMAIN tag2id) - 1)
    /\ DOMAIN id2tag = IdsOf(tag2id)
    /\ \A t \in DOMAIN tag2id : id2tag[tag2id[t]] = t
    /\ \A i \in DOMAIN id2tag : id2tag[i] \in DOMAIN tag2id /\ tag2id[id2tag[i]] = i

\* the reserved entries hold ids 0-3 and every other tag an id from 4 on
ReservedFixed ==
    /\ ReservedTags \subseteq DOMAIN tag2id
    /\ \A t \in ReservedTags : tag2id[t] = ReservedId(t)
    /\ \A t \in DOMAIN tag2id \ ReservedTags :
           tag2id[t] \in 4..(Cardinality(DOMAIN tag2id) - 1)

\* C2: after any sequence of load_data and set_tags calls, tag2id is a
\* bijection between the tag strings and 0..N-1 whose inverse is id2tag;
\* once a set_tags has returned, the reserved entries sit at 0-3, every
\* other tag holds an id in 4..N-1 (a training tag named like a reserved
\* entry keeps the reserved id) and every training tag of the split the
\* vocabulary was built from has an id.
C2_VocabularyBijection ==
    /\ IsBijection
    /\ tag2id # EmptyDict => ReservedFixed
    /\ (lastOp \in SetTagsOps /\ ret.kind # "KeyError") => ReservedFixed
    /\ Fresh(built) => TagSet(train_dict) \subseteq DOMAIN tag2id

\* a vocabulary built by two set_tags over different splits, one of them
\* holding a tag named like a reserved entry
C2_Witness ==
    /\ lastOp = "set_tags"
    /\ built = "once"
    /\ "[CLS]" \in TagSet(train_dict)
    /\ "O" \in TagSet(train_dict)
    /\ Cardinality(DOMAIN tag2id) = 6
    /\ tag2id["B"] = 4
    /\ tag2id["O"] = 5
    /\ id2tag[5] = "O"

\* C9: no step changes the id of a tag that is already in the vocabulary
\* (the vocabulary only grows), and a set_tags that runs on the training
\* split of the set_tags before it leaves tag2id and id2tag as they were,
\* in whatever order the tag set is iterated.
C9_RepeatedSetTags ==
    [][/\ \A t \in DOMAIN tag2id :
              t \in DOMAIN tag2id' /\ tag2id'[t] = tag2id[t]
       /\ (Fresh(built) /\ lastOp' \in SetTagsOps /\ train_dict' = train_dict)
              => (tag2id' = tag2id /\ id2tag' = id2tag)]_vars

\* get_test_data has repeated set_tags on the split get_train_data (or
\* set_tags) built a two-tag vocabulary from
C9_Witness ==
    /\ built = "again"
    /\ lastOp = "get_test_data"
    /\ TagSet(train_dict) = {"O", "B"}
    /\ tag2id["B"] = 4
    /\ tag2id["O"] = 5

(***************************************************************************)
(* Properties of convert_examples_to_features (checked under SpecConvert). *)
(* What an example should yield is computed here from the words alone, so  *)
(* that the lists the model builds are compared against it.                *)
(***************************************************************************)
Called == args.kind = "call"

Ok == Called /\ ret.kind = "ok"

Examples == 1..Len(args.word_seq)

ExWords(e) == args.word_seq[e]

ExTags(e) == IF args.has_tags THEN args.tag_seq[e]
             ELSE [i \in 1..Len(args.word_seq[e]) |-> "_t_pad_"]

\* the number of tokens a word stands for before truncation
PieceCount(word) ==
    IF word = "_unk_" THEN 1
    ELSE IF word = "_w_pad_" THEN 0
    ELSE Len(tokenize(word))

\* the number of real tokens that precede word i of the example
StartOf(ws, i) == SumSeq([j \in 1..(i - 1) |-> PieceCount(ws[j])])

\* the number of real tokens of the example before truncation
RealCount(e) == StartOf(ExWords(e), Len(ExWords(e)) + 1)

\* the real tokens of the example before truncation
ExpectedTokens(ws) ==
    Flatten([j \in 1..Len(ws) |->
                IF ws[j] = "_unk_" THEN <<"[UNK]">>
                ELSE IF ws[j] = "_w_pad_" THEN <<>>
                ELSE tokenize(ws[j])])

\* the truncation test of line 128
Truncated(e) ==
    args.use_max_seq /\ RealCount(e) >= args.max_seq_length - 1

\* the number of real tokens the example keeps
ExpectedKept(e) ==
    IF ~Truncated(e) THEN RealCount(e)
    ELSE IF args.max_seq_length >= 2 THEN args.max_seq_length - 2
    ELSE Max(RealCount(e) - 1, 0)

\* the record of example e in a call that returned
Out(e) == ret.examples[e]

\* the number of real tokens between the two markers of the output
Kept(e) == Len(Out(e).ntokens) - 2

\* the lists of example e before and after lines 128-131
Whole(e) == WalkWords(ExWords(e), ExTags(e))

Cut(e) == Truncate(Whole(e), args.use_max_seq, args.max_seq_length)

FiveLengths(e, n) ==
    /\ Len(Out(e).input_ids) = n
    /\ Len(Out(e).input_mask) = n
    /\ Len(Out(e).segment_ids) = n
    /\ Len(Out(e).label_ids) = n
    /\ Len(Out(e).label_mask) = n
    /\ Len(ret.inp.input_word_ids[e]) = n
    /\ Len(ret.inp.input_mask[e]) = n
    /\ Len(ret.inp.input_type_ids[e]) = n
    /\ Len(ret.target.label_ids[e]) = n
    /\ Len(ret.target.label_mask[e]) = n

PiecesAsClaimed(e, i, k) ==
    \A m \in 1..k :
        StartOf(ExWords(e), i) + m <= Kept(e) =>
            LET p == StartOf(ExWords(e), i) + m + 1
            IN  /\ Out(e).ntokens[p] = tokenize(ExWords(e)[i])[m]
                /\ Out(e).label_mask[p] = (m = 1)
                /\ Out(e).label_ids[p] =
                       IF m = 1 THEN tag2id[ExTags(e)[i]] ELSE ReservedId("[INV]")

\* the words the tokenizer splits into more than one subword
SplitWords(e) ==
    {i \in 1..Len(ExWords(e)) :
        /\ ExWords(e)[i] \notin {"_unk_", "_w_pad_"}
        /\ Len(tokenize(ExWords(e)[i])) > 1}

\* C3 as stated: the output holds all k positions of a word split into
\* k > 1 subwords, the first with the word's tag id and validity true, the
\* others with id 1 and validity false.
C3_Original ==
    Ok => \A e \in Examples : \A i \in SplitWords(e) :
        LET k == Len(tokenize(ExWords(e)[i]))
        IN  /\ StartOf(ExWords(e), i) + k <= Kept(e)
            /\ PiecesAsClaimed(e, i, k)

\* C3 amended: of the k > 1 positions of a split word, those that survive
\* the truncation of lines 128-131 (all k when the example is not
\* truncated) are such that the first carries the word's tag id with
\* validity true and the others carry id 1 with validity false.
C3_SplitWord ==
    Ok => \A e \in Examples : \A i \in SplitWords(e) :
        LET k == Len(tokenize(ExWords(e)[i]))
        IN  /\ ~Truncated(e) => StartOf(ExWords(e), i) + k <= Kept(e)
            /\ Kept(e) = ExpectedKept(e)
            /\ PiecesAsClaimed(e, i, k)

\* a split word that is kept whole, behind another token
C3_Witness ==
    /\ Ok
    /\ \E e \in Examples : \E i \in SplitWords(e) :
           /\ StartOf(ExWords(e), i) = 1
           /\ Kept(e) = 3
           /\ Out(e).label_ids[3] = 4
           /\ Out(e).label_ids[4] = 1
           /\ Out(e).label_mask[3]
           /\ ~Out(e).label_mask[4]

\* C4 as stated: in fixed-length mode, for every positive max_seq_length,
\* an example with max_seq_length-1 or more real tokens keeps exactly
\* max_seq_length-2 of them.
C4_Original ==
    (Called /\ args.use_max_seq) => \A e \in Examples :
        Len(Whole(e).tokens) >= args.max_seq_length - 1 =>
            Len(Cut(e).tokens) = args.max_seq_length - 2

\* C4 amended: in fixed-length mode, for every max_seq_length >= 2, an
\* example with max_seq_length-1 or more real tokens keeps exactly the first
\* max_seq_length-2 of its tokens, labels and validity flags, and an example
\* with fewer is not truncated; with max_seq_length = 1 the slice bound is
\* -1, so every example loses its last real token (if it has one).
C4_Truncation ==
    (Called /\ args.use_max_seq) => \A e \in Examples :
        LET n == Len(Whole(e).tokens)
            msl == args.max_seq_length
            keep == IF n < msl - 1 THEN n
                    ELSE IF msl >= 2 THEN msl - 2
                    ELSE Max(n - 1, 0)
        IN  /\ n = RealCount(e)
            /\ Whole(e).tokens = ExpectedTokens(ExWords(e))
            /\ Len(Whole(e).labels) = n
            /\ Len(Whole(e).label_mask) = n
            /\ Cut(e).tokens = SubSeq(Whole(e).tokens, 1, keep)
            /\ Cut(e).labels = SubSeq(Whole(e).labels, 1, keep)
            /\ Cut(e).label_mask = SubSeq(Whole(e).label_mask, 1, keep)
            /\ n < msl - 1 => Cut(e) = Whole(e)
            /\ Ok => SubSeq(Out(e).ntokens, 2, Kept(e) + 1) = Cut(e).tokens

\* an example of four real tokens cut to one by max_seq_length = 3
C4_Witness ==
    /\ Ok
    /\ args.use_max_seq
    /\ args.max_seq_length = 3
    /\ \E e \in Examples : RealCount(e) = 4 /\ Kept(e) = 1

\* C5 as stated: with tag_seq=None every label id is 0, except 2 at the
\* start marker and 3 at the end marker.
C5_Original ==
    (Ok /\ ~args.has_tags) => \A e \in Examples :
        \A p \in 1..Len(Out(e).label_ids) :
            Out(e).label_ids[p] =
                IF p = 1 THEN 2 ELSE IF p = Kept(e) + 2 THEN 3 ELSE 0

\* C5 amended: with tag_seq=None every label id is 0, except 2 at the start
\* marker, 3 at the end marker and 1 (the '[INV]' id) at every subword of a
\* word after its first.
C5_TestLabels ==
    (Ok /\ ~args.has_tags) => \A e \in Examples :
        /\ Kept(e) = ExpectedKept(e)
        /\ \A p \in 1..Len(Out(e).label_ids) :
            Out(e).label_ids[p] =
                IF p = 1 THEN 2
                ELSE IF p = Kept(e) + 2 THEN 3
                ELSE IF p <= Kept(e) + 1 /\ ~Out(e).label_mask[p] THEN 1
                ELSE 0

\* a test-split call with a split word in one example and padding in
\* another
C5_Witness ==
    /\ Ok
    /\ ~args.has_tags
    /\ \E e \in Examples : Out(e).label_ids = <<2, 0, 1, 3>>
    /\ \E e \in Examples : Out(e).label_ids = <<2, 0, 3, 0>>

\* C6: in both modes, position 0 of every returned example holds '[CLS]'
\* with validity false and the reserved start id, '[SEP]' with validity
\* false and the reserved end id sits right after the last real token, and
\* every segment id is 0.
C6_Markers ==
    Ok => \A e \in Examples :
        /\ Kept(e) = ExpectedKept(e)
        /\ SubSeq(Out(e).ntokens, 2, Kept(e) + 1)
               = SubSeq(ExpectedTokens(ExWords(e)), 1, Kept(e))
        /\ Out(e).ntokens[1] = "[CLS]"
        /\ Out(e).input_ids[1] = VocabId("[CLS]")
        /\ ~Out(e).label_mask[1]
        /\ Out(e).label_ids[1] = ReservedId("[CLS]")
        /\ Out(e).ntokens[Kept(e) + 2] = "[SEP]"
        /\ Out(e).input_ids[Kept(e) + 2] = VocabId("[SEP]")
        /\ ~Out(e).label_mask[Kept(e) + 2]
        /\ Out(e).label_ids[Kept(e) + 2] = ReservedId("[SEP]")
        /\ \A p \in 1..Len(Out(e).segment_ids) : Out(e).segment_ids[p] = 0
        /\ \A p \in 1..Len(ret.inp.input_type_ids[e]) :
               ret.inp.input_type_ids[e][p] = 0

\* a variable-length example of three real tokens
C6_Witness ==
    /\ Ok
    /\ \E e \in Examples : Kept(e) = 3 /\ Out(e).label_ids[5] = 3
    /\ ~args.use_max_seq

\* the '_unk_' words of an example
UnkWords(e) == {i \in 1..Len(ExWords(e)) : ExWords(e)[i] = "_unk_"}

UnkAsClaimed(e, i) ==
    LET p == StartOf(ExWords(e), i) + 2
    IN  /\ Out(e).ntokens[p] = "[UNK]"
        /\ Out(e).input_ids[p] = VocabId("[UNK]")
        /\ Out(e).label_mask[p]
        /\ Out(e).label_ids[p] = tag2id[ExTags(e)[i]]

\* C7 as stated: every '_unk_' word contributes exactly one '[UNK]' token
\* to the output, with the word's tag id and validity true.
C7_Original ==
    Ok => \A e \in Examples : \A i \in UnkWords(e) :
        /\ StartOf(ExWords(e), i) + 1 <= Kept(e)
        /\ UnkAsClaimed(e, i)

\* C7 amended: every '_unk_' word contributes exactly one '[UNK]' token,
\* with the word's tag id and validity true, unless the truncation of lines
\* 128-131 cuts that token off; in an example that is not truncated no such
\* token is cut.
C7_UnknownWord ==
    Ok => \A e \in Examples :
        /\ Kept(e) = ExpectedKept(e)
        /\ SubSeq(Out(e).ntokens, 2, Kept(e) + 1)
               = SubSeq(ExpectedTokens(ExWords(e)), 1, Kept(e))
        /\ \A i \in UnkWords(e) :
               /\ ~Truncated(e) => StartOf(ExWords(e), i) + 1 <= Kept(e)
               /\ StartOf(ExWords(e), i) + 1 <= Kept(e) => UnkAsClaimed(e, i)

\* an '_unk_' word kept behind another token
C7_Witness ==
    /\ Ok
    /\ \E e \in Examples : \E i \in UnkWords(e) :
           /\ i = 2
           /\ StartOf(ExWords(e), i) = 1
           /\ Out(e).ntokens[3] = "[UNK]"
           /\ Out(e).label_ids[3] = 4

\* a tag that is not a key of tag2id labels a token the example keeps
UsesAbsentTag(e) ==
    \E i \in 1..Len(ExWords(e)) :
        /\ PieceCount(ExWords(e)[i]) >= 1
        /\ StartOf(ExWords(e), i) < ExpectedKept(e)
        /\ ExTags(e)[i] \notin DOMAIN tag2id

\* a tag that is not a key of tag2id occurs in the tag sequences
HasAbsentTag ==
    \E e \in Examples : \E i \in 1..Len(ExTags(e)) :
        ExTags(e)[i] \notin DOMAIN tag2id

\* what the call ends with, from its arguments
ExpectedOutcome ==
    IF Examples = {} THEN "ok"
    ELSE IF args.use_max_seq /\ args.max_seq_length = 1
         THEN IF UsesAbsentTag(1) THEN "KeyError" ELSE "AssertionError"
    ELSE IF \E e \in Examples : UsesAbsentTag(e) THEN "KeyError"
    ELSE "ok"

\* C8 as stated: a tag sequence that holds a tag absent from tag2id makes
\* the call fail with a lookup error.
C8_Original ==
    (Called /\ HasAbsentTag) => ret.kind = "KeyError"

\* C8 amended: the call fails with a lookup error on the absent tag, and
\* returns no record, exactly when such a tag labels a token that is kept
\* (the first subword of a word or an '[UNK]' token, within the truncated
\* prefix); no default id is substituted. An absent tag on a '_w_pad_' word,
\* on a word without subwords or on a token cut by truncation is never
\* looked up. With max_seq_length = 1 in fixed-length mode the first example
\* ends the call: with the lookup error if it uses an absent tag, with the
\* failed assertion otherwise.
C8_AbsentTag ==
    Called =>
        /\ ret.kind = ExpectedOutcome
        /\ ret.kind = "KeyError" =>
               (HasAbsentTag /\ ret.key \notin DOMAIN tag2id)
        /\ (\E e \in Examples : UsesAbsentTag(e)) => ret.kind # "ok"

\* the first example converts, the second one uses an absent tag
C8_Witness ==
    /\ Called
    /\ Len(args.word_seq) = 2
    /\ ~UsesAbsentTag(1)
    /\ RealCount(1) >= 1
    /\ UsesAbsentTag(2)
    /\ ret.kind = "KeyError"
    /\ ret.key = "B"

RECURSIVE SelectValid(_, _)
\* the label ids at the positions whose validity flag is true, in order
SelectValid(label_ids, label_mask) ==
    IF label_ids = <<>> THEN <<>>
    ELSE (IF Head(label_mask) THEN <<Head(label_ids)>> ELSE <<>>)
         \o SelectValid(Tail(label_ids), Tail(label_mask))

\* the words of the example that are not '_w_pad_'
RealWords(e) == {i \in 1..Len(ExWords(e)) : ExWords(e)[i] # "_w_pad_"}

RECURSIVE TagIdsOf(_, _)
\* the tag ids of the words that are not '_w_pad_', in order
TagIdsOf(ws, ts) ==
    IF ws = <<>> THEN <<>>
    ELSE (IF Head(ws) # "_w_pad_" THEN <<tag2id[Head(ts)]>> ELSE <<>>)
         \o TagIdsOf(Tail(ws), Tail(ts))

\* C10: when no truncation occurs, the validity=true positions of an
\* example are, in order, its words that are not '_w_pad_', each with the
\* word's tag id, for every tokenizer output including a word for which
\* the tokenizer returns no subword.
C10_ValidPerWord ==
    Ok => \A e \in Examples :
        ~Truncated(e) =>
            /\ \A i \in RealWords(e) : ExTags(e)[i] \in DOMAIN tag2id
            /\ SelectValid(Out(e).label_ids, Out(e).label_mask)
                   = TagIdsOf(ExWords(e), ExTags(e))

====
